---- MODULE Spec2Model ----
(***************************************************************************)
(* Model of the synonym-map service of src/main.py: the pydantic request   *)
(* models (validators), the five FastAPI endpoints and the Azure AI Search *)
(* index client ("Gateway") they call.                                     *)
(*                                                                         *)
(* Strings that the code takes apart (terms and rule strings) are          *)
(* sequences of one-character strings; names that the code only compares   *)
(* are TLA+ strings.                                                       *)
(***************************************************************************)
EXTENDS Integers, Sequences, FiniteSets, TLC

\* ------------------------------------------------------------------ bounds

\* Requests started in one run of the service.
MaxRequests == 2
\* A submitted group list: its groups, its terms and its characters in all.
MaxGroups == 2
MaxTerms == 4
MaxChars == 4
\* Map names a field of the index holds at the start.
MaxAssoc == 2

\* constr(min_length=1, max_length=10)
MinMapNameLen == 1
MaxMapNameLen == 10

\* --------------------------------------------------------- strings, codec

Chars == {"a", " ", ","}
Whitespace == {" "}
Comma == ","
CommaSpace == <<",", " ">>

Range(s) == {s[i] : i \in 1..Len(s)}

SeqsUpTo(S, lo, hi) == UNION {[1..n -> S] : n \in lo..hi}

\* ", ".join(terms)
RECURSIVE Join(_, _)
Join(terms, sep) ==
    IF terms = <<>> THEN <<>>
    ELSE IF Len(terms) = 1 THEN terms[1]
    ELSE terms[1] \o sep \o Join(Tail(terms), sep)

\* s.split(","): the pieces between the separators, empty pieces kept
RECURSIVE SplitFrom(_, _, _)
SplitFrom(s, sep, cur) ==
    IF s = <<>> THEN <<cur>>
    ELSE IF s[1] = sep THEN <<cur>> \o SplitFrom(Tail(s), sep, <<>>)
    ELSE SplitFrom(Tail(s), sep, Append(cur, s[1]))

Split(s, sep) == SplitFrom(s, sep, <<>>)

RECURSIVE LStrip(_)
LStrip(s) ==
    IF s # <<>> /\ s[1] \in Whitespace THEN LStrip(Tail(s)) ELSE s

RECURSIVE RStrip(_)
RStrip(s) ==
    IF s # <<>> /\ s[Len(s)] \in Whitespace
    THEN RStrip(SubSeq(s, 1, Len(s) - 1)) ELSE s

StripKeep(s) == s

\* element.strip()
Strip(s) == RStrip(LStrip(s))

\* the loop of create_synonym_map / update_synonym_map that builds the rules
EncodeRules(groups) == [i \in 1..Len(groups) |-> Join(groups[i], CommaSpace)]

\* [element.strip() for element in rule.split(",")]
DecodeRule(rule) ==
    LET parts == Split(rule, Comma)
    IN  [i \in 1..Len(parts) |-> Strip(parts[i])]

DecodeRules(rules) == [i \in 1..Len(rules) |-> DecodeRule(rules[i])]

\* ------------------------------------------------------------- validators

ErrListEmpty == "SynonymList cannot be empty"
ErrGroupCard == "SubSynonymList should contain at least two non-empty elements"
ErrTerm == "SubSynonymList's elements should be non-empty string"
ErrLowercase == "MapName should be in Lowercase"
ErrIndexName == "IndexName does not exist in Azure AI Search"
ErrMapName == "MapName does not exist in Azure AI Search"
ErrTooShort == "string_too_short"
ErrTooLong == "string_too_long"
NoError == "ok"

\* one pass of the outer loop of check_synonym_list over a group
GroupError(g) ==
    IF Len(g) <= 1 THEN ErrGroupCard
    ELSE IF \E j \in 1..Len(g) : g[j] = <<>> THEN ErrTerm
    ELSE NoError

\* check_synonym_list: the first raise reached, or NoError
CheckSynonymList(v) ==
    IF v = <<>> THEN ErrListEmpty
    ELSE LET bad == {i \in 1..Len(v) : GroupError(v[i]) # NoError}
         IN  IF bad = {} THEN NoError
             ELSE GroupError(v[CHOOSE i \in bad : \A k \in bad : i <= k])


\* v.lower() over the map names the model uses
Lower(v) == IF v = "M3" THEN "m3" ELSE v

\* constr(min_length=1, max_length=10), then check_mapName's casing test
MapNameError(v) ==
    IF Len(v) < MinMapNameLen THEN ErrTooShort
    ELSE IF Len(v) > MaxMapNameLen THEN ErrTooLong
    ELSE IF v # Lower(v) THEN ErrLowercase
    ELSE NoError

\* ------------------------------------------------------------ the Gateway

\* os.getenv("AZURE_SEARCH_INDEX_FIELD_NAME")
FieldName == "content"
OtherFieldName == "title"

\* SearchField.synonym_map_names: a list, or None
NoneList == [none |-> TRUE, list |-> <<>>]
ListOf(l) == [none |-> FALSE, list |-> l]
Field(n, l) == [name |-> n, synonym_map_names |-> l]

SynMap(n, r) == [name |-> n, synonyms |-> r]

tA == <<"a">>
tB == <<"b">>
RuleAB == <<"a", ",", " ", "b">>
RuleSpaced == <<"a", " ", ",", "b">>

ExistingIndexes == {"idx"}

MapStoreOptions ==
    { <<>>,
      <<SynMap("m1", <<RuleAB>>)>>,
      <<SynMap("m2", <<RuleSpaced>>), SynMap("m1", <<RuleAB>>)>>,
      <<SynMap("toolongname", <<RuleAB>>), SynMap("m2", <<>>)>> }

ConfiguredFieldOptions ==
    { <<>>,
      <<Field(FieldName, NoneList)>>,
      <<Field(FieldName, ListOf(<<>>))>>,
      <<Field(FieldName, ListOf(<<"m1">>))>>,
      <<Field(FieldName, ListOf(<<"m2", "m1">>))>>,
      <<Field(FieldName, ListOf(<<"toolongname">>))>> }

OtherFieldOptions ==
    { <<Field(OtherFieldName, NoneList)>>,
      <<Field(OtherFieldName, ListOf(<<"m2">>))>> }

MapNamesOf(maps) == {maps[i].name : i \in 1..Len(maps)}

MapNamed(maps, n) == maps[CHOOSE i \in 1..Len(maps) : maps[i].name = n]

RECURSIVE RemoveMap(_, _)
RemoveMap(maps, n) ==
    IF maps = <<>> THEN <<>>
    ELSE IF maps[1].name = n THEN RemoveMap(Tail(maps), n)
    ELSE <<maps[1]>> \o RemoveMap(Tail(maps), n)

\* create_or_update_synonym_map: replace in place, or add
PutMap(maps, m) ==
    IF m.name \in MapNamesOf(maps)
    THEN [i \in 1..Len(maps) |-> IF maps[i].name = m.name THEN m ELSE maps[i]]
    ELSE Append(maps, m)

ErrGateway == "GatewayError"
ErrIndexNotFound == "IndexNotFound"
ErrMapNotFound == "MapNotFound"
ErrMapExists == "MapAlreadyExists"
ErrTypeError == "argument of type 'NoneType' is not iterable"
ErrValidation == "ValidationError"

\* ------------------------------------------------- index-field reconciler

\* list.remove(x): the first occurrence
RECURSIVE RemoveFirst(_, _)
RemoveFirst(l, x) ==
    IF l = <<>> THEN <<>>
    ELSE IF l[1] = x THEN Tail(l)
    ELSE <<l[1]>> \o RemoveFirst(Tail(l), x)

\* "mapName not in synonym_map_names" on None raises TypeError
AttachRaises(fields, m) ==
    \E i \in 1..Len(fields) :
        fields[i].name = FieldName /\ fields[i].synonym_map_names.none

\* the test of create_synonym_map on a field of the index
AttachHits(f, m) ==
    /\ f.name = FieldName
    /\ ~f.synonym_map_names.none
    /\ m \notin Range(f.synonym_map_names.list)

AttachAlways(fields, m) == TRUE

\* ifIndexChanged of create_synonym_map
AttachChanged(fields, m) == \E i \in 1..Len(fields) : AttachHits(fields[i], m)

AttachFields(fields, m) ==
    [i \in 1..Len(fields) |->
        IF AttachHits(fields[i], m)
        THEN Field(fields[i].name,
                   ListOf(Append(fields[i].synonym_map_names.list, m)))
        ELSE fields[i]]

DetachHitsAnyField(f, m) ==
    /\ ~f.synonym_map_names.none
    /\ Len(f.synonym_map_names.list) > 0
    /\ m \in Range(f.synonym_map_names.list)

\* the test of delete_synonym_map on a field of the index
DetachHits(f, m) ==
    /\ ~f.synonym_map_names.none
    /\ Len(f.synonym_map_names.list) > 0
    /\ f.name = FieldName
    /\ m \in Range(f.synonym_map_names.list)

DetachAlways(fields, m) == TRUE

\* ifIndexChanged of delete_synonym_map
DetachChanged(fields, m) == \E i \in 1..Len(fields) : DetachHits(fields[i], m)

DetachFields(fields, m) ==
    [i \in 1..Len(fields) |->
        IF DetachHits(fields[i], m)
        THEN Field(fields[i].name,
                   ListOf(RemoveFirst(fields[i].synonym_map_names.list, m)))
        ELSE fields[i]]

\* the list of the field named FieldName; <<>> when it is None or the index
\* has no such field
ConfiguredList(fields) ==
    LET sel == {i \in 1..Len(fields) :
                  /\ fields[i].name = FieldName
                  /\ ~fields[i].synonym_map_names.none}
    IN  IF sel = {} THEN <<>>
        ELSE fields[CHOOSE i \in sel : TRUE].synonym_map_names.list

\* the names of the configured field alone
CollectConfigured(fields) == ConfiguredList(fields)

\* the loop over index.fields of get_synonymmap_by_aisearchindexname
RECURSIVE CollectNames(_)
CollectNames(fields) ==
    IF fields = <<>> THEN <<>>
    ELSE (IF ~fields[1].synonym_map_names.none
             /\ Len(fields[1].synonym_map_names.list) > 0
          THEN fields[1].synonym_map_names.list ELSE <<>>)
         \o CollectNames(Tail(fields))

\* list(OrderedDict.fromkeys(l))
RECURSIVE DedupeFrom(_, _)
DedupeFrom(l, seen) ==
    IF l = <<>> THEN <<>>
    ELSE IF l[1] \in seen THEN DedupeFrom(Tail(l), seen)
    ELSE <<l[1]>> \o DedupeFrom(Tail(l), seen \cup {l[1]})

Dedupe(l) == DedupeFrom(l, {})


\* --------------------------------------------------------------- requests

RequestIndexNames == {"idx", "nox"}
RequestMapNames == {"m1", "m2", "M3", "toolongname", ""}

GroupsValid == << <<tA, tB>> >>
RequestGroups ==
    { <<>>,
      << <<tA>> >>,
      << <<tA, <<>>>> >>,
      GroupsValid,
      << <<tA, <<>>>>, <<tB>> >> }

Request(k, ix, m, given, g) ==
    [kind |-> k, indexName |-> ix, mapName |-> m, listGiven |-> given,
     synonymList |-> g]

\* synonymList omitted from the body: the default [] is taken, unvalidated
WithLists(k) ==
    {Request(k, ix, m, TRUE, g) :
        ix \in RequestIndexNames, m \in RequestMapNames, g \in RequestGroups}
    \cup {Request(k, ix, m, FALSE, <<>>) :
        ix \in RequestIndexNames, m \in RequestMapNames}

AllRequests ==
    {Request("list_all", "", "", FALSE, <<>>)}
    \cup {Request("list_index", ix, "", FALSE, <<>>) : ix \in RequestIndexNames}
    \cup WithLists("create")
    \cup WithLists("update")
    \cup {Request("delete", ix, m, FALSE, <<>>) :
            ix \in RequestIndexNames, m \in RequestMapNames}

\* the requests of the concurrent runs: well-formed ones on the existing index
ConcRequests ==
    {r \in AllRequests :
        /\ r.kind \in {"list_index", "create", "update", "delete"} =>
              r.indexName = "idx"
        /\ r.kind \in {"create", "update", "delete"} =>
              r.mapName \in {"m1", "m2"}
        /\ r.kind \in {"create", "update"} =>
              r.listGiven /\ r.synonymList = GroupsValid}

\* ---------------------------------------------------------------- responses

MsgSuccess == "Success"
MsgAlreadyExists == "Synonym map already exists in index"
MsgNotFound == "Synonym map not found in index"

Envelope(code, msg, data) ==
    [kind |-> "envelope", code |-> code, message |-> msg, data |-> data]

ErrorPartial(e, data) == Envelope(500, e, data)

\* ResponseModel(code=500, message=str(e)): data takes its default, []
ErrorResponse(e, data) == Envelope(500, e, <<>>)

\* FastAPI's answer to a request body that fails validation
Http422(errors) ==
    [kind |-> "http422", code |-> 422, message |-> "detail", data |-> errors]

NoResponse == [kind |-> "none", code |-> 0, message |-> "", data |-> <<>>]

\* ------------------------------------------------------------------ state

Clients == {1, 2}

VARIABLES
    gwMaps,      \* Gateway: the synonym maps, in enumeration order
    gwIndexes,   \* Gateway: index name -> fields
    cl,          \* per client: the request in flight and its locals
    started,     \* requests started so far
    cdPc, cdGroups, cdRules, cdDecoded,   \* codec round trip
    rcPc, rcFields0, rcFields, rcMap      \* attach/detach round trip

svcVars == <<gwMaps, gwIndexes, cl, started>>
cdVars == <<cdPc, cdGroups, cdRules, cdDecoded>>
rcVars == <<rcPc, rcFields0, rcFields, rcMap>>
vars == <<gwMaps, gwIndexes, cl, started, cdPc, cdGroups, cdRules, cdDecoded,
          rcPc, rcFields0, rcFields, rcMap>>

NoRequest == Request("none", "", "", FALSE, <<>>)

IdleClient ==
    [pc |-> "idle", req |-> NoRequest, errors |-> <<>>, calls |-> <<>>,
     fetched |-> <<>>, index |-> <<>>, rules |-> <<>>, changed |-> FALSE,
     sent |-> <<>>, names |-> <<>>, maps |-> <<>>, i |-> 0, data |-> <<>>,
     err |-> NoError, resp |-> NoResponse,
     pre |-> [maps |-> <<>>, fields |-> <<>>]]

Call(op, ok) == [op |-> op, ok |-> ok]

Called(r, op, ok) == [r EXCEPT !.calls = Append(@, Call(op, ok))]

\* the except branch of an endpoint
Failed(r, e) ==
    [r EXCEPT !.pc = "done", !.err = e, !.resp = ErrorResponse(e, r.data)]

Returned(r, resp) == [r EXCEPT !.pc = "done", !.resp = resp]

CodecIdle ==
    /\ cdPc = "off" /\ cdGroups = <<>> /\ cdRules = <<>> /\ cdDecoded = <<>>

ReconcileIdle ==
    /\ rcPc = "off" /\ rcFields0 = <<>> /\ rcFields = <<>> /\ rcMap = ""

ServiceIdle ==
    /\ gwMaps = <<>>
    /\ gwIndexes = [n \in ExistingIndexes |-> <<>>]
    /\ cl = [c \in Clients |-> IdleClient]
    /\ started = 0

Init ==
    /\ gwMaps \in MapStoreOptions
    /\ \E cf \in ConfiguredFieldOptions, of \in OtherFieldOptions :
          gwIndexes = [n \in ExistingIndexes |-> of \o cf]
    /\ cl = [c \in Clients |-> IdleClient]
    /\ started = 0
    /\ CodecIdle
    /\ ReconcileIdle

Set(c, r) ==
    /\ cl' = [cl EXCEPT ![c] = r]
    /\ UNCHANGED <<cdVars, rcVars>>

GatewaySame == UNCHANGED <<gwMaps, gwIndexes>>

IndexFound(n, ok) == ok /\ n \in DOMAIN gwIndexes
MapFound(n, ok) == ok /\ n \in MapNamesOf(gwMaps)

\* ------------------------------------------------------ request validation

FirstPc(k) == IF k = "list_all" THEN "la_enum" ELSE "v_index"

BodyPc(k) ==
    CASE k = "list_index" -> "li_get"
      [] k = "create" -> "cr_get"
      [] k = "update" -> "up_get"
      [] k = "delete" -> "de_get"

\* a request arrives
Start(c, R) ==
    /\ cl[c].pc = "idle"
    /\ started < MaxRequests
    /\ \E req \in R :
          Set(c, [IdleClient EXCEPT
                    !.pc = FirstPc(req.kind), !.req = req,
                    !.pre = [maps |-> gwMaps, fields |-> gwIndexes["idx"]]])
    /\ started' = started + 1
    /\ GatewaySame

AddError(r, e) == IF e = NoError THEN r ELSE [r EXCEPT !.errors = Append(@, e)]

\* check_indexName of the four request models
ValidateIndexName(c, O) ==
    /\ cl[c].pc = "v_index"
    /\ \E ok \in O :
          LET r == cl[c]
              found == IndexFound(r.req.indexName, ok)
              r1 == Called(r, "get_index", found)
              r2 == AddError(r1, IF found THEN NoError ELSE ErrIndexName)
          IN  Set(c, [r2 EXCEPT !.pc = IF r.req.kind = "list_index"
                                       THEN "dispatch" ELSE "v_map"])
    /\ UNCHANGED <<gwMaps, gwIndexes, started>>

\* mapName is not looked at once indexName has failed
ValidateMapNameFailFast(c, O) ==
    /\ cl[c].pc = "v_map"
    /\ \E ok \in O :
          LET r == cl[c]
              e == MapNameError(r.req.mapName)
              asks == e = NoError /\ r.req.kind = "update" /\ r.errors = <<>>
              found == MapFound(r.req.mapName, ok)
              r1 == IF asks THEN Called(r, "get_synonym_map", found) ELSE r
              r2 == IF r.errors # <<>> THEN r
                    ELSE AddError(r1, IF asks /\ ~found THEN ErrMapName ELSE e)
          IN  Set(c, [r2 EXCEPT !.pc = IF r.req.kind = "delete"
                                       THEN "dispatch" ELSE "v_list"])
    /\ UNCHANGED <<gwMaps, gwIndexes, started>>

\* constr(...) and check_mapName; UpdatedSynonymData also asks the Gateway
ValidateMapName(c, O) ==
    /\ cl[c].pc = "v_map"
    /\ \E ok \in O :
          LET r == cl[c]
              e == MapNameError(r.req.mapName)
              asks == e = NoError /\ r.req.kind = "update"
              found == MapFound(r.req.mapName, ok)
              r1 == IF asks THEN Called(r, "get_synonym_map", found) ELSE r
              r2 == AddError(r1, IF asks /\ ~found THEN ErrMapName ELSE e)
          IN  Set(c, [r2 EXCEPT !.pc = IF r.req.kind = "delete"
                                       THEN "dispatch" ELSE "v_list"])
    /\ UNCHANGED <<gwMaps, gwIndexes, started>>

\* check_synonym_list; not run on the default of an omitted synonymList
ValidateSynonymList(c) ==
    /\ cl[c].pc = "v_list"
    /\ LET r == cl[c]
           e == IF r.req.listGiven THEN CheckSynonymList(r.req.synonymList)
                ELSE NoError
       IN  Set(c, [AddError(r, e) EXCEPT !.pc = "dispatch"])
    /\ UNCHANGED <<gwMaps, gwIndexes, started>>

\* FastAPI: a body that failed validation is answered 422, the endpoint not run
Dispatch(c) ==
    /\ cl[c].pc = "dispatch"
    /\ LET r == cl[c]
       IN  IF r.errors # <<>>
           THEN Set(c, Returned(r, Http422(r.errors)))
           ELSE Set(c, [r EXCEPT !.pc = BodyPc(r.req.kind)])
    /\ UNCHANGED <<gwMaps, gwIndexes, started>>

\* the response is sent
Return(c) ==
    /\ cl[c].pc = "done"
    /\ Set(c, IdleClient)
    /\ UNCHANGED <<gwMaps, gwIndexes, started>>


\* ------------------------------------------------------ get_all_synonymmaps

\* search_index_client.get_synonym_maps() and the list of names
ListAllEnumerate(c, O) ==
    /\ cl[c].pc = "la_enum"
    /\ \E ok \in O :
          LET r == Called(cl[c], "get_synonym_maps", ok)
          IN  IF ok
              THEN Set(c, [r EXCEPT !.pc = "la_fetch", !.i = 1,
                             !.names = [k \in 1..Len(gwMaps) |-> gwMaps[k].name]])
              ELSE Set(c, Failed(r, ErrGateway))
    /\ UNCHANGED <<gwMaps, gwIndexes, started>>

ReadRecord(m) == [mapName |-> m.name, synonymList |-> DecodeRules(m.synonyms)]

\* one pass of the loop over names: ReadSynonymData(mapName=name), then
\* get_synonym_map(name) and the decoding of its rules
ListAllFetch(c, O) ==
    /\ cl[c].pc = "la_fetch"
    /\ cl[c].i <= Len(cl[c].names)
    /\ \E ok \in O :
          LET r == cl[c]
              n == r.names[r.i]
              found == MapFound(n, ok)
              r1 == Called(r, "get_synonym_map", found)
          IN  IF Len(n) < MinMapNameLen \/ Len(n) > MaxMapNameLen
              THEN Set(c, Failed(r, ErrValidation))
              ELSE IF ~found
              THEN Set(c, Failed(r1, IF ok THEN ErrMapNotFound ELSE ErrGateway))
              ELSE Set(c, [r1 EXCEPT !.i = @ + 1,
                              !.data = Append(@, ReadRecord(MapNamed(gwMaps, n)))])
    /\ UNCHANGED <<gwMaps, gwIndexes, started>>

ListAllReturn(c) ==
    /\ cl[c].pc = "la_fetch"
    /\ cl[c].i > Len(cl[c].names)
    /\ Set(c, Returned(cl[c], Envelope(200, MsgSuccess, cl[c].data)))
    /\ UNCHANGED <<gwMaps, gwIndexes, started>>

\* -------------------------------------- get_synonymmap_by_aisearchindexname

IndexNames(fields) == Dedupe(CollectNames(fields))

\* get_index, the loop over index.fields and the removal of duplicates
ListIndexGet(c, O) ==
    /\ cl[c].pc = "li_get"
    /\ \E ok \in O :
          LET r == cl[c]
              found == IndexFound(r.req.indexName, ok)
              r1 == Called(r, "get_index", found)
              fields == gwIndexes[r.req.indexName]
              names == IndexNames(fields)
          IN  IF ~found
              THEN Set(c, Failed(r1, IF ok THEN ErrIndexNotFound ELSE ErrGateway))
              ELSE Set(c, [r1 EXCEPT !.fetched = fields, !.index = fields,
                              !.names = names, !.i = 1,
                              !.pc = IF names = <<>> THEN "li_build"
                                     ELSE "li_fetch"])
    /\ UNCHANGED <<gwMaps, gwIndexes, started>>

\* one pass of the loop that fetches each named map
ListIndexFetch(c, O) ==
    /\ cl[c].pc = "li_fetch"
    /\ \E ok \in O :
          LET r == cl[c]
              n == r.names[r.i]
              found == MapFound(n, ok)
              r1 == Called(r, "get_synonym_map", found)
          IN  IF ~found
              THEN Set(c, Failed(r1, IF ok THEN ErrMapNotFound ELSE ErrGateway))
              ELSE Set(c, [r1 EXCEPT
                              !.maps = Append(@, MapNamed(gwMaps, n)),
                              !.i = IF r.i = Len(r.names) THEN 1 ELSE r.i + 1,
                              !.pc = IF r.i = Len(r.names) THEN "li_build"
                                     ELSE "li_fetch"])
    /\ UNCHANGED <<gwMaps, gwIndexes, started>>

FullRecord(ix, m) ==
    [indexName |-> ix, mapName |-> m.name,
     synonymList |-> DecodeRules(m.synonyms)]

\* one pass of the loop that builds the records: SynonymData(indexName=...,
\* mapName=...) runs check_indexName (a get_index call) and check_mapName
ListIndexBuild(c, O) ==
    /\ cl[c].pc = "li_build"
    /\ cl[c].i <= Len(cl[c].maps)
    /\ \E ok \in O :
          LET r == cl[c]
              m == r.maps[r.i]
              found == IndexFound(r.req.indexName, ok)
              r1 == Called(r, "get_index", found)
          IN  IF ~found \/ MapNameError(m.name) # NoError
              THEN Set(c, Failed(r1, ErrValidation))
              ELSE Set(c, [r1 EXCEPT !.i = @ + 1,
                              !.data = Append(@, FullRecord(r.req.indexName, m))])
    /\ UNCHANGED <<gwMaps, gwIndexes, started>>

ListIndexReturn(c) ==
    /\ cl[c].pc = "li_build"
    /\ cl[c].i > Len(cl[c].maps)
    /\ Set(c, Returned(cl[c], Envelope(200, MsgSuccess, cl[c].data)))
    /\ UNCHANGED <<gwMaps, gwIndexes, started>>

\* ------------------------------------------------------- create_synonym_map

\* get_index, then the loop that joins each group into a rule
CreateGetIndex(c, O) ==
    /\ cl[c].pc = "cr_get"
    /\ \E ok \in O :
          LET r == cl[c]
              found == IndexFound(r.req.indexName, ok)
              r1 == Called(r, "get_index", found)
          IN  IF ~found
              THEN Set(c, Failed(r1, IF ok THEN ErrIndexNotFound ELSE ErrGateway))
              ELSE Set(c, [r1 EXCEPT
                              !.fetched = gwIndexes[r.req.indexName],
                              !.index = gwIndexes[r.req.indexName],
                              !.rules = EncodeRules(r.req.synonymList),
                              !.pc = "cr_create"])
    /\ UNCHANGED <<gwMaps, gwIndexes, started>>

\* the map is written with the call of the update endpoint
CreateMapUpsert(c, O) ==
    /\ cl[c].pc = "cr_create"
    /\ \E ok \in O :
          LET r == cl[c]
              r1 == Called(r, "create_synonym_map", ok)
          IN  IF ok
              THEN /\ gwMaps' = PutMap(gwMaps, SynMap(r.req.mapName, r.rules))
                   /\ Set(c, [r1 EXCEPT !.pc = "cr_attach"])
              ELSE /\ gwMaps' = gwMaps
                   /\ Set(c, Failed(r1, ErrGateway))
    /\ UNCHANGED <<gwIndexes, started>>

\* create_synonym_map(SynonymMap(name, rules)): refused for an existing name
CreateMap(c, O) ==
    /\ cl[c].pc = "cr_create"
    /\ \E ok \in O :
          LET r == cl[c]
              done == ok /\ r.req.mapName \notin MapNamesOf(gwMaps)
              r1 == Called(r, "create_synonym_map", done)
          IN  IF done
              THEN /\ gwMaps' = Append(gwMaps, SynMap(r.req.mapName, r.rules))
                   /\ Set(c, [r1 EXCEPT !.pc = "cr_attach"])
              ELSE /\ gwMaps' = gwMaps
                   /\ Set(c, Failed(r1, IF ok THEN ErrMapExists ELSE ErrGateway))
    /\ UNCHANGED <<gwIndexes, started>>

\* the loop over index.fields that adds the map name, and the branch on
\* ifIndexChanged that answers without an index update
CreateAttach(c) ==
    /\ cl[c].pc = "cr_attach"
    /\ LET r == cl[c]
           m == r.req.mapName
       IN  IF AttachRaises(r.index, m)
           THEN Set(c, Failed(r, ErrTypeError))
           ELSE IF AttachChanged(r.index, m)
           THEN Set(c, [r EXCEPT !.index = AttachFields(r.index, m),
                           !.changed = TRUE, !.pc = "cr_update"])
           ELSE Set(c, Returned(r, Envelope(200, MsgAlreadyExists, <<>>)))
    /\ UNCHANGED <<gwMaps, gwIndexes, started>>

\* the index is written back as it was fetched
CreateUpdateIndexStale(c, O) ==
    /\ cl[c].pc = "cr_update"
    /\ \E ok \in O :
          LET r == cl[c]
              r1 == Called(r, "create_or_update_index", ok)
          IN  IF ok
              THEN /\ gwIndexes' = [gwIndexes EXCEPT ![r.req.indexName] = r.fetched]
                   /\ Set(c, Returned([r1 EXCEPT !.sent = r.fetched],
                                      Envelope(200, MsgSuccess, <<>>)))
              ELSE /\ gwIndexes' = gwIndexes
                   /\ Set(c, Failed(r1, ErrGateway))
    /\ UNCHANGED <<gwMaps, started>>

\* create_or_update_index(index): the index becomes the caller's copy
CreateUpdateIndex(c, O) ==
    /\ cl[c].pc = "cr_update"
    /\ \E ok \in O :
          LET r == cl[c]
              r1 == Called(r, "create_or_update_index", ok)
          IN  IF ok
              THEN /\ gwIndexes' = [gwIndexes EXCEPT ![r.req.indexName] = r.index]
                   /\ Set(c, Returned([r1 EXCEPT !.sent = r.index],
                                      Envelope(200, MsgSuccess, <<>>)))
              ELSE /\ gwIndexes' = gwIndexes
                   /\ Set(c, Failed(r1, ErrGateway))
    /\ UNCHANGED <<gwMaps, started>>

\* ------------------------------------------------------- delete_synonym_map

DeleteGetIndex(c, O) ==
    /\ cl[c].pc = "de_get"
    /\ \E ok \in O :
          LET r == cl[c]
              found == IndexFound(r.req.indexName, ok)
              r1 == Called(r, "get_index", found)
          IN  IF ~found
              THEN Set(c, Failed(r1, IF ok THEN ErrIndexNotFound ELSE ErrGateway))
              ELSE Set(c, [r1 EXCEPT
                              !.fetched = gwIndexes[r.req.indexName],
                              !.index = gwIndexes[r.req.indexName],
                              !.pc = "de_delete"])
    /\ UNCHANGED <<gwMaps, gwIndexes, started>>

\* delete_synonym_map(name): a name the Gateway does not hold is no error
DeleteMap(c, O) ==
    /\ cl[c].pc = "de_delete"
    /\ \E ok \in O :
          LET r == cl[c]
              r1 == Called(r, "delete_synonym_map", ok)
          IN  IF ok
              THEN /\ gwMaps' = RemoveMap(gwMaps, r.req.mapName)
                   /\ Set(c, [r1 EXCEPT !.pc = "de_detach"])
              ELSE /\ gwMaps' = gwMaps
                   /\ Set(c, Failed(r1, ErrGateway))
    /\ UNCHANGED <<gwIndexes, started>>

\* the loop over index.fields that removes the map name, and the branch on
\* ifIndexChanged that answers without an index update
DeleteDetach(c) ==
    /\ cl[c].pc = "de_detach"
    /\ LET r == cl[c]
           m == r.req.mapName
       IN  IF DetachChanged(r.index, m)
           THEN Set(c, [r EXCEPT !.index = DetachFields(r.index, m),
                           !.changed = TRUE, !.pc = "de_update"])
           ELSE Set(c, Returned(r, Envelope(200, MsgNotFound, <<>>)))
    /\ UNCHANGED <<gwMaps, gwIndexes, started>>

DeleteUpdateIndex(c, O) ==
    /\ cl[c].pc = "de_update"
    /\ \E ok \in O :
          LET r == cl[c]
              r1 == Called(r, "create_or_update_index", ok)
          IN  IF ok
              THEN /\ gwIndexes' = [gwIndexes EXCEPT ![r.req.indexName] = r.index]
                   /\ Set(c, Returned([r1 EXCEPT !.sent = r.index],
                                      Envelope(200, MsgSuccess, <<>>)))
              ELSE /\ gwIndexes' = gwIndexes
                   /\ Set(c, Failed(r1, ErrGateway))
    /\ UNCHANGED <<gwMaps, started>>

\* ------------------------------------------------------- update_synonym_map

UpdateGetIndex(c, O) ==
    /\ cl[c].pc = "up_get"
    /\ \E ok \in O :
          LET r == cl[c]
              found == IndexFound(r.req.indexName, ok)
              r1 == Called(r, "get_index", found)
          IN  IF ~found
              THEN Set(c, Failed(r1, IF ok THEN ErrIndexNotFound ELSE ErrGateway))
              ELSE Set(c, [r1 EXCEPT
                              !.fetched = gwIndexes[r.req.indexName],
                              !.index = gwIndexes[r.req.indexName],
                              !.rules = EncodeRules(r.req.synonymList),
                              !.pc = "up_put"])
    /\ UNCHANGED <<gwMaps, gwIndexes, started>>

\* create_or_update_synonym_map(SynonymMap(name, rules))
UpdatePutMap(c, O) ==
    /\ cl[c].pc = "up_put"
    /\ \E ok \in O :
          LET r == cl[c]
              r1 == Called(r, "create_or_update_synonym_map", ok)
          IN  IF ok
              THEN /\ gwMaps' = PutMap(gwMaps, SynMap(r.req.mapName, r.rules))
                   /\ Set(c, Returned(r1, Envelope(200, MsgSuccess, <<>>)))
              ELSE /\ gwMaps' = gwMaps
                   /\ Set(c, Failed(r1, ErrGateway))
    /\ UNCHANGED <<gwIndexes, started>>

\* ---------------------------------------------------------- specifications

Step(c, R, O) ==
    \/ Start(c, R)
    \/ ValidateIndexName(c, O)
    \/ ValidateMapName(c, O)
    \/ ValidateSynonymList(c)
    \/ Dispatch(c)
    \/ ListAllEnumerate(c, O)
    \/ ListAllFetch(c, O)
    \/ ListAllReturn(c)
    \/ ListIndexGet(c, O)
    \/ ListIndexFetch(c, O)
    \/ ListIndexBuild(c, O)
    \/ ListIndexReturn(c)
    \/ CreateGetIndex(c, O)
    \/ CreateMap(c, O)
    \/ CreateAttach(c)
    \/ CreateUpdateIndex(c, O)
    \/ DeleteGetIndex(c, O)
    \/ DeleteMap(c, O)
    \/ DeleteDetach(c)
    \/ DeleteUpdateIndex(c, O)
    \/ UpdateGetIndex(c, O)
    \/ UpdatePutMap(c, O)
    \/ Return(c)

\* one client, every request, a Gateway whose calls may fail
Next == Step(1, AllRequests, BOOLEAN)

Spec == Init /\ [][Next]_vars

\* two clients at once, well-formed requests, a Gateway whose calls fail only
\* for what it holds (an unknown map, a name already taken)
NextConc == \E c \in Clients : Step(c, ConcRequests, {TRUE})

SpecConc == Init /\ [][NextConc]_vars


\* ------------------------------------------------- the codec, on its own

\* the synonymList of a request body, written group by group
CodecAddGroup ==
    /\ cdPc = "input"
    /\ Len(cdGroups) < MaxGroups
    /\ cdGroups' = Append(cdGroups, <<>>)
    /\ UNCHANGED <<cdPc, cdRules, cdDecoded, svcVars, rcVars>>

TermCount(g) ==
    LET RECURSIVE Sum(_)
        Sum(k) == IF k = 0 THEN 0 ELSE Len(g[k]) + Sum(k - 1)
    IN  Sum(Len(g))

CharCount(g) ==
    LET RECURSIVE Sum(_)
        Sum(k) == IF k = 0 THEN 0 ELSE TermCount(g[k]) + Sum(k - 1)
    IN  Sum(Len(g))

CodecAddTerm ==
    /\ cdPc = "input"
    /\ cdGroups # <<>>
    /\ TermCount(cdGroups) < MaxTerms
    /\ cdGroups' = [cdGroups EXCEPT ![Len(cdGroups)] = Append(@, <<>>)]
    /\ UNCHANGED <<cdPc, cdRules, cdDecoded, svcVars, rcVars>>

CodecAddChar ==
    /\ cdPc = "input"
    /\ cdGroups # <<>>
    /\ cdGroups[Len(cdGroups)] # <<>>
    /\ CharCount(cdGroups) < MaxChars
    /\ \E ch \in Chars :
          cdGroups' = [cdGroups EXCEPT
                         ![Len(cdGroups)][Len(cdGroups[Len(cdGroups)])] =
                             Append(@, ch)]
    /\ UNCHANGED <<cdPc, cdRules, cdDecoded, svcVars, rcVars>>

\* check_synonym_list on the submitted list
CodecValidate ==
    /\ cdPc = "input"
    /\ cdPc' = IF CheckSynonymList(cdGroups) = NoError THEN "valid"
               ELSE "rejected"
    /\ UNCHANGED <<cdGroups, cdRules, cdDecoded, svcVars, rcVars>>

\* the rules create_synonym_map sends
CodecEncode ==
    /\ cdPc = "valid"
    /\ cdRules' = EncodeRules(cdGroups)
    /\ cdPc' = "encoded"
    /\ UNCHANGED <<cdGroups, cdDecoded, svcVars, rcVars>>

\* the synonymList a list endpoint answers for those rules
CodecDecode ==
    /\ cdPc = "encoded"
    /\ cdDecoded' = DecodeRules(cdRules)
    /\ cdPc' = "decoded"
    /\ UNCHANGED <<cdGroups, cdRules, svcVars, rcVars>>

InitCodec ==
    /\ ServiceIdle
    /\ ReconcileIdle
    /\ cdPc = "input" /\ cdGroups = <<>> /\ cdRules = <<>> /\ cdDecoded = <<>>

NextCodec ==
    \/ CodecAddGroup
    \/ CodecAddTerm
    \/ CodecAddChar
    \/ CodecValidate
    \/ CodecEncode
    \/ CodecDecode

SpecCodec == InitCodec /\ [][NextCodec]_vars

\* ------------------------------------- attach and detach, on their own

AssocNames == {"m1", "m2", "m3"}

\* lists without repetition, as the attach step keeps them
AssocLists ==
    {l \in SeqsUpTo(AssocNames, 0, MaxAssoc) :
        \A i, j \in 1..Len(l) : i # j => l[i] # l[j]}

\* the loop of create_synonym_map over index.fields
ReconcileAttach ==
    /\ rcPc = "start"
    /\ IF AttachRaises(rcFields, rcMap)
       THEN rcFields' = rcFields /\ rcPc' = "attach_raised"
       ELSE rcFields' = AttachFields(rcFields, rcMap) /\ rcPc' = "attached"
    /\ UNCHANGED <<rcFields0, rcMap, svcVars, cdVars>>

\* the loop of delete_synonym_map over index.fields
ReconcileDetach ==
    /\ rcPc \in {"attached", "attach_raised"}
    /\ rcFields' = DetachFields(rcFields, rcMap)
    /\ rcPc' = "detached"
    /\ UNCHANGED <<rcFields0, rcMap, svcVars, cdVars>>

InitReconcile ==
    /\ ServiceIdle
    /\ CodecIdle
    /\ rcPc = "start"
    /\ rcMap \in AssocNames
    /\ \E of \in {NoneList} \cup {ListOf(l) : l \in AssocLists},
          cf \in {<<>>, <<Field(FieldName, NoneList)>>}
                 \cup {<<Field(FieldName, ListOf(l))>> : l \in AssocLists} :
          rcFields0 = <<Field(OtherFieldName, of)>> \o cf
    /\ rcFields = rcFields0

NextReconcile == ReconcileAttach \/ ReconcileDetach

SpecReconcile == InitReconcile /\ [][NextReconcile]_vars

\* ------------------------------------------------------------- properties

Done(c) == cl[c].pc = "done"

CountCalls(r, op) == Cardinality({i \in 1..Len(r.calls) : r.calls[i].op = op})

AllOk(r) == \A i \in 1..Len(r.calls) : r.calls[i].ok

\* the endpoint body was entered: the request body passed validation
Entered(r) == r.pc \notin {"idle", "v_index", "v_map", "v_list", "dispatch"}
                 /\ r.errors = <<>>

HasConfigured(fields) == \E i \in 1..Len(fields) : fields[i].name = FieldName

ConfiguredIsNone(fields) ==
    \E i \in 1..Len(fields) :
        fields[i].name = FieldName /\ fields[i].synonym_map_names.none

\* C1 (as amended): a failure inside an endpoint (a Gateway call that fails or
\* finds nothing, the TypeError of the attach step, a pydantic error raised
\* while a list record is built) is answered with the envelope code=500,
\* message=the error string, data=[]; a request body that fails validation
\* never reaches the endpoint and is answered by the framework with 422 and
\* the list of validation errors, not with the envelope.
C1_FailureShape ==
    \A c \in Clients :
        Done(c) =>
            /\ cl[c].errors # <<>> =>
                  /\ cl[c].resp = Http422(cl[c].errors)
                  /\ cl[c].err = NoError
                  /\ Len(cl[c].calls) <= 2
                  /\ gwMaps = cl[c].pre.maps
                  /\ gwIndexes["idx"] = cl[c].pre.fields
            /\ cl[c].err # NoError => cl[c].resp = Envelope(500, cl[c].err, <<>>)
            /\ (cl[c].errors = <<>> /\ cl[c].err = NoError) =>
                  cl[c].resp.kind = "envelope" /\ cl[c].resp.code = 200

\* C1 witness: a list request fails after records were collected, and the
\* envelope carries none of them.
C1_Witness ==
    \E c \in Clients :
        /\ Done(c)
        /\ cl[c].err # NoError
        /\ cl[c].data # <<>>
        /\ cl[c].resp = Envelope(500, cl[c].err, <<>>)

\* C1 as stated: every failure of a request, validation failures included, is
\* answered with the envelope code=500, data=[].
C1_Original ==
    \A c \in Clients :
        (Done(c) /\ (cl[c].errors # <<>> \/ cl[c].err # NoError)) =>
            /\ cl[c].resp.kind = "envelope"
            /\ cl[c].resp.code = 500
            /\ cl[c].resp.data = <<>>

\* what the validators of a create or update request report, field by field
ExpectedErrors(r) ==
    LET req == r.req
        ixErr == IF r.calls[1].ok THEN <<>> ELSE <<ErrIndexName>>
        nameErr ==
            IF Len(req.mapName) < MinMapNameLen THEN <<ErrTooShort>>
            ELSE IF Len(req.mapName) > MaxMapNameLen THEN <<ErrTooLong>>
            ELSE IF req.mapName # Lower(req.mapName) THEN <<ErrLowercase>>
            ELSE IF req.kind = "update" /\ ~r.calls[2].ok THEN <<ErrMapName>>
            ELSE <<>>
        g == req.synonymList
        listErr ==
            IF ~req.listGiven THEN <<>>
            ELSE IF g = <<>> THEN <<ErrListEmpty>>
            ELSE IF Len(g[1]) <= 1 THEN <<ErrGroupCard>>
            ELSE IF \E j \in 1..Len(g[1]) : g[1][j] = <<>> THEN <<ErrTerm>>
            ELSE IF Len(g) >= 2 /\ Len(g[2]) <= 1 THEN <<ErrGroupCard>>
            ELSE IF Len(g) >= 2 /\ \E j \in 1..Len(g[2]) : g[2][j] = <<>>
                 THEN <<ErrTerm>>
            ELSE <<>>
    IN  ixErr \o nameErr \o listErr

WellFormedName(m) ==
    /\ Len(m) >= MinMapNameLen /\ Len(m) <= MaxMapNameLen /\ m = Lower(m)

\* C2 (as amended): the fields of a create or update request are validated in
\* the order indexName, mapName, synonymList, each whether or not an earlier
\* one failed: get-index is called first for every request, whatever its
\* mapName; an update then calls get-synonym-map exactly when its mapName has
\* 1..10 characters and is lowercase, whether or not indexName resolved; within
\* mapName the order is length, lowercase, existence, and within a supplied
\* group list it is non-empty, then group by group at least 2 elements and
\* each term non-empty; only the first failure of a field is reported.
C2_ValidationOrder ==
    \A c \in Clients :
        (cl[c].pc = "dispatch" /\ cl[c].req.kind \in {"create", "update"}) =>
            LET r == cl[c]
                asks == r.req.kind = "update" /\ WellFormedName(r.req.mapName)
            IN  /\ Len(r.calls) = IF asks THEN 2 ELSE 1
                /\ r.calls[1].op = "get_index"
                /\ asks => r.calls[2].op = "get_synonym_map"
                /\ r.errors = ExpectedErrors(r)

\* C2 witness: an update whose indexName does not resolve and whose groups are
\* bad has still asked the Gateway for its map, and reports all three fields.
C2_Witness ==
    \E c \in Clients :
        /\ cl[c].pc = "dispatch"
        /\ cl[c].req.kind = "update"
        /\ cl[c].req.indexName = "nox"
        /\ Len(cl[c].calls) = 2
        /\ Len(cl[c].errors) = 3

\* C2 as stated: the first failing rule aborts validation, mapName comes
\* first, so a request with an invalid mapName causes no Gateway call and one
\* whose indexName does not resolve causes no get-synonym-map call.
C2_Original ==
    \A c \in Clients :
        cl[c].req.kind \in {"create", "update"} =>
            /\ ~WellFormedName(cl[c].req.mapName) => cl[c].calls = <<>>
            /\ cl[c].req.indexName \notin ExistingIndexes =>
                  CountCalls(cl[c], "get_synonym_map") = 0
            /\ Len(cl[c].errors) <= 1

\* the index a create sends when it appends m to the configured field
Appended(fields, m) ==
    [i \in 1..Len(fields) |->
        IF fields[i].name = FieldName
        THEN Field(FieldName, ListOf(fields[i].synonym_map_names.list \o <<m>>))
        ELSE fields[i]]

\* C3 as stated: a valid create on an index whose configured field exists and
\* does not contain m (its list may be empty or none), with every Gateway call
\* succeeding, makes one create-map call with the joined rules, then one
\* index-update call with m appended to the field, and answers 200.
C3_Original ==
    \A c \in Clients :
        LET r == cl[c]
        IN  (/\ Done(c) /\ r.req.kind = "create" /\ Entered(r) /\ AllOk(r)
             /\ HasConfigured(r.fetched)
             /\ r.req.mapName \notin Range(ConfiguredList(r.fetched))) =>
                /\ CountCalls(r, "create_synonym_map") = 1
                /\ r.rules = [i \in 1..Len(r.req.synonymList) |->
                                Join(r.req.synonymList[i], CommaSpace)]
                /\ CountCalls(r, "create_or_update_index") = 1
                /\ r.sent = Appended(r.fetched, r.req.mapName)
                /\ r.resp.code = 200

\* C4: in a create or a delete the index-update call is made once if the
\* attach/detach step changed the configured field's list and not at all
\* otherwise; a create whose field already holds the name, and a create or
\* delete on an index without the configured field, make no index-update call
\* and answer 200 when their Gateway calls succeed.
C4_UpdateIffChanged ==
    \A c \in Clients :
        LET r == cl[c]
            n == CountCalls(r, "create_or_update_index")
            changed == r.index # r.fetched
        IN  (r.req.kind \in {"create", "delete"}) =>
                /\ n <= (IF changed THEN 1 ELSE 0)
                /\ (Done(c) /\ Entered(r)) =>
                      /\ n = (IF changed THEN 1 ELSE 0)
                      /\ (/\ AllOk(r)
                          /\ \/ ~HasConfigured(r.fetched)
                             \/ /\ r.req.kind = "create"
                                /\ r.req.mapName \in Range(ConfiguredList(r.fetched)))
                         => n = 0 /\ r.resp.code = 200

\* C4 witness: a create whose field already holds the name has answered 200
\* without an index update, and its create-map call was made.
C4_Witness ==
    \E c \in Clients :
        /\ Done(c) /\ cl[c].req.kind = "create" /\ Entered(cl[c]) /\ AllOk(cl[c])
        /\ cl[c].req.mapName \in Range(ConfiguredList(cl[c].fetched))
        /\ CountCalls(cl[c], "create_synonym_map") = 1
        /\ CountCalls(cl[c], "create_or_update_index") = 0

\* C5: a delete that passed validation, whose Gateway calls succeed and whose
\* map name is not in the configured field's list (empty, none, no such
\* field, or a list without the name) makes the delete-map call once, no
\* index-update call, and answers 200 with the not-found-in-index message.
C5_DeleteNotAttached ==
    \A c \in Clients :
        LET r == cl[c]
        IN  (/\ Done(c) /\ r.req.kind = "delete" /\ Entered(r) /\ AllOk(r)
             /\ r.req.mapName \notin Range(ConfiguredList(r.fetched))) =>
                /\ CountCalls(r, "delete_synonym_map") = 1
                /\ CountCalls(r, "create_or_update_index") = 0
                /\ r.resp = Envelope(200, MsgNotFound, <<>>)

\* C5 witness: such a delete on a field whose list is none removed a map the
\* Gateway held.
C5_Witness ==
    \E c \in Clients :
        /\ Done(c) /\ cl[c].req.kind = "delete" /\ Entered(cl[c]) /\ AllOk(cl[c])
        /\ ConfiguredIsNone(cl[c].fetched)
        /\ cl[c].req.mapName \in MapNamesOf(cl[c].pre.maps)
        /\ cl[c].req.mapName \notin MapNamesOf(gwMaps)
        /\ cl[c].resp.message = MsgNotFound


\* the records list-maps-for-an-index answers for the names l, in that order
RecordsFor(ix, l) ==
    [i \in 1..Len(l) |->
        [indexName |-> ix, mapName |-> l[i],
         synonymList |-> DecodeRules(MapNamed(gwMaps, l[i]).synonyms)]]

AllFieldNames(fields) ==
    UNION {Range(fields[i].synonym_map_names.list) : i \in 1..Len(fields)}

\* position of the first field, and the place in it, that names n
FirstAt(fields, n) ==
    LET f == CHOOSE i \in 1..Len(fields) :
                /\ n \in Range(fields[i].synonym_map_names.list)
                /\ \A k \in 1..(i - 1) :
                      n \notin Range(fields[k].synonym_map_names.list)
        l == fields[f].synonym_map_names.list
        p == CHOOSE j \in 1..Len(l) :
                l[j] = n /\ \A k \in 1..(j - 1) : l[k] # n
    IN  <<f, p>>

Before(a, b) == a[1] < b[1] \/ (a[1] = b[1] /\ a[2] < b[2])

\* C8 (as amended): for an existing index, list-maps-for-an-index answers 200
\* whenever its Gateway calls succeed and every map named by a field of the
\* index exists under a name of 1..10 lowercase characters; a 200 answer holds
\* one record per distinct map name named by ANY field of the index (not the
\* configured field alone), in order of first occurrence over the fields in
\* field order, each tagged with the queried index name and carrying the
\* map's decoded groups.
C8_ListIndexAllFields ==
    \A c \in Clients :
        LET r == cl[c]
            fields == gwIndexes[r.req.indexName]
            want == AllFieldNames(fields)
        IN  (Done(c) /\ r.req.kind = "list_index" /\ Entered(r)) =>
                /\ (/\ AllOk(r)
                    /\ \A n \in want :
                          n \in MapNamesOf(gwMaps) /\ WellFormedName(n))
                   => r.resp.code = 200
                /\ r.resp.code = 200 =>
                      LET d == r.resp.data
                      IN  /\ {d[i].mapName : i \in 1..Len(d)} = want
                          /\ Len(d) = Cardinality(want)
                          /\ \A i, j \in 1..Len(d) :
                                i < j => Before(FirstAt(fields, d[i].mapName),
                                                FirstAt(fields, d[j].mapName))
                          /\ d = RecordsFor(r.req.indexName,
                                            [i \in 1..Len(d) |-> d[i].mapName])

\* C8 witness: a 200 answer holds a map that only another field names.
C8_Witness ==
    \E c \in Clients :
        /\ Done(c) /\ cl[c].req.kind = "list_index" /\ cl[c].resp.code = 200
        /\ \E i \in 1..Len(cl[c].resp.data) :
              cl[c].resp.data[i].mapName
                 \notin Range(ConfiguredList(gwIndexes["idx"]))
        /\ Len(cl[c].resp.data) >= 2

\* C8 as stated: the records are those of the configured field's map names
\* alone; a map only another field names does not appear.
C8_Original ==
    \A c \in Clients :
        (Done(c) /\ cl[c].req.kind = "list_index" /\ cl[c].resp.code = 200) =>
            cl[c].resp.data =
                RecordsFor(cl[c].req.indexName,
                           Dedupe(ConfiguredList(gwIndexes[cl[c].req.indexName])))

\* a successful call of the request to op
Succeeded(r, op) ==
    \E i \in 1..Len(r.calls) : r.calls[i].op = op /\ r.calls[i].ok

\* C10 (as amended): a create or delete that answers 500 leaves every index
\* field's associated-map list as it was (a failed Gateway call has no
\* effect), and leaves the set of synonym maps as it was only when it failed
\* at get-index or at the create-map/delete-map call itself; when it fails
\* later (the attach step on a field whose list is none, or the index-update
\* call) the map stays created, or stays deleted: nothing is rolled back.
C10_FailureEffects ==
    \A c \in Clients :
        LET r == cl[c]
            m == r.req.mapName
        IN  (/\ Done(c) /\ r.req.kind \in {"create", "delete"}
             /\ r.resp.code = 500) =>
                /\ gwIndexes["idx"] = r.pre.fields
                /\ gwMaps =
                      IF Succeeded(r, "create_synonym_map")
                      THEN Append(r.pre.maps, SynMap(m, r.rules))
                      ELSE IF Succeeded(r, "delete_synonym_map")
                      THEN SelectSeq(r.pre.maps, LAMBDA x : x.name # m)
                      ELSE r.pre.maps
                /\ Succeeded(r, "create_synonym_map") =>
                      m \notin MapNamesOf(r.pre.maps)

\* C10 witness: a delete answered 500 after its delete-map call removed a map.
C10_Witness ==
    \E c \in Clients :
        /\ Done(c) /\ cl[c].req.kind = "delete" /\ cl[c].resp.code = 500
        /\ Succeeded(cl[c], "delete_synonym_map")
        /\ gwMaps # cl[c].pre.maps
        /\ gwIndexes["idx"] = cl[c].pre.fields

\* C10 as stated: a create or delete that answers 500 leaves the synonym maps
\* and every field's list as they were before the request.
C10_Original ==
    \A c \in Clients :
        (/\ Done(c) /\ cl[c].req.kind \in {"create", "delete"}
         /\ cl[c].resp.code = 500) =>
            /\ gwMaps = cl[c].pre.maps
            /\ gwIndexes["idx"] = cl[c].pre.fields


\* two creates of different names on the same index, both answered 200 with
\* every Gateway call succeeding, and no other request started
TwoCreates(c, d) ==
    /\ c # d /\ Done(c) /\ Done(d) /\ started = 2
    /\ cl[c].req.kind = "create" /\ cl[d].req.kind = "create"
    /\ cl[c].req.indexName = cl[d].req.indexName
    /\ cl[c].req.mapName # cl[d].req.mapName
    /\ cl[c].resp.code = 200 /\ cl[d].resp.code = 200
    /\ AllOk(cl[c]) /\ AllOk(cl[d])
    /\ HasConfigured(gwIndexes["idx"])

\* C9 (as amended): once two concurrent creates of m1 and m2 on the same
\* index (which has the configured field) have both answered 200, the field's
\* list in the Gateway holds at least one of the names, that of the request
\* whose index update came last, and holds both whenever one request fetched
\* the index after the other's name was in it; when both fetch the index
\* before either updates it, the later update overwrites the earlier and the
\* earlier name is lost.
C9_LastWriteWins ==
    \A c, d \in Clients :
        TwoCreates(c, d) =>
            LET L == Range(ConfiguredList(gwIndexes["idx"]))
                mc == cl[c].req.mapName
                md == cl[d].req.mapName
            IN  /\ mc \in L \/ md \in L
                /\ md \in Range(ConfiguredList(cl[c].fetched)) => {mc, md} \subseteq L
                /\ (cl[c].changed /\ mc \notin L) =>
                      /\ cl[d].changed
                      /\ mc \notin Range(ConfiguredList(cl[d].fetched))
                      /\ gwIndexes["idx"] = cl[d].sent

\* C9 witness: both creates answered 200 and the first name is lost.
C9_Witness ==
    \E c, d \in Clients :
        /\ TwoCreates(c, d)
        /\ cl[c].changed /\ cl[d].changed
        /\ cl[c].req.mapName \notin Range(ConfiguredList(gwIndexes["idx"]))
        /\ cl[d].req.mapName \in Range(ConfiguredList(gwIndexes["idx"]))

\* C9 as stated: once both creates have answered 200 the field's list holds
\* both names.
C9_Original ==
    \A c, d \in Clients :
        TwoCreates(c, d) =>
            {cl[c].req.mapName, cl[d].req.mapName}
                \subseteq Range(ConfiguredList(gwIndexes["idx"]))

\* C6 (as amended): for an index whose configured field exists and every map
\* name m that the field's list L does not hold (L may be none), the attach
\* step with m followed by the detach step with m leaves every field of the
\* index, the configured field's list included, as it was; when L already
\* holds m the attach step changes nothing and the detach step removes m.
C6_RoundTrip ==
    (rcPc = "detached" /\ HasConfigured(rcFields0)) =>
        IF rcMap \notin Range(ConfiguredList(rcFields0))
        THEN rcFields = rcFields0
        ELSE /\ rcMap \notin Range(ConfiguredList(rcFields))
             /\ Len(ConfiguredList(rcFields)) + 1 = Len(ConfiguredList(rcFields0))

\* C6 witness: the round trip was made on a non-empty list without m, the
\* attach step having added m.
C6_Witness ==
    /\ rcPc = "detached"
    /\ HasConfigured(rcFields0)
    /\ Len(ConfiguredList(rcFields0)) = MaxAssoc
    /\ rcMap \notin Range(ConfiguredList(rcFields0))
    /\ rcFields = rcFields0

\* C6 as stated: for every list L and every m, attach then detach leaves L.
C6_Original ==
    (rcPc = "detached" /\ HasConfigured(rcFields0)) =>
        ConfiguredList(rcFields) = ConfiguredList(rcFields0)

CommaFree(g) ==
    \A i \in 1..Len(g) : \A j \in 1..Len(g[i]) : Comma \notin Range(g[i][j])

Trimmed(g) ==
    \A i \in 1..Len(g) : \A j \in 1..Len(g[i]) :
        LET t == g[i][j]
        IN  t = <<>> \/ (t[1] \notin Whitespace /\ t[Len(t)] \notin Whitespace)

\* C7 (as amended): for every group list the validator accepts in which no
\* term contains a comma and no term begins or ends with whitespace, decoding
\* the encoded rules gives back the same groups, terms and order.
C7_RoundTrip ==
    (cdPc = "decoded" /\ CommaFree(cdGroups) /\ Trimmed(cdGroups)) =>
        cdDecoded = cdGroups

\* C7 witness: a list of two groups went through the round trip unchanged.
C7_Witness ==
    /\ cdPc = "decoded"
    /\ Len(cdGroups) = 2
    /\ CommaFree(cdGroups) /\ Trimmed(cdGroups)
    /\ cdDecoded = cdGroups

\* C7 as stated: the round trip gives back every accepted group list whose
\* terms contain no comma.
C7_Original ==
    (cdPc = "decoded" /\ CommaFree(cdGroups)) => cdDecoded = cdGroups

====
